---- MODULE Spec2Model ----
(***************************************************************************)
(* Model of bot.py: a Twitch chat bot that validates and refreshes its     *)
(* OAuth token at startup, in a periodic task (token_refresh_loop) and in  *)
(* the !balance command (check_balance), persists refreshed tokens to the  *)
(* .env file and answers balance lookups from a Google sheet.              *)
(*                                                                         *)
(* The bot runs on one asyncio event loop.  validate_token,                *)
(* refresh_access_token, update_env_file and get_user_points are blocking  *)
(* calls (requests / file I/O / gspread): a task keeps the thread from one *)
(* await to the next.  The variable `running` is the task that holds the   *)
(* thread; pc[t] is the statement task t executes next.                    *)
(***************************************************************************)
EXTENDS Integers, Sequences, FiniteSets, TLC

\* ------------------------------------------------------------------ bounds
MaxIssue == 3        \* token pairs in existence: the configured one and refreshes
MaxReady == 2        \* times the ready event is delivered (connect + reconnects)
MaxCmds  == 1        \* !balance commands being handled at the same time
MaxLines == 3        \* lines of the .env files update_env_file is applied to

\* ------------------------------------------------------- program constants
RefreshThreshold == 300          \* "if expires_in < 300"
ExitFailure == 1                 \* exit(1)
RequiredScopes == {"chat:read", "chat:edit"}

None == "None"

\* ------------------------------------------------------------------ tokens
\* The pair of the n-th issuance; pair 1 is the one configured in the environment.
AccessTok(n)  == "A" \o ToString(n)
RefreshTok(n) == "R" \o ToString(n)
TWITCH_ACCESS_TOKEN  == AccessTok(1)
TWITCH_REFRESH_TOKEN == RefreshTok(1)

\* --------------------------------------------------------------- the .env file
\* File content is a sequence of atoms; "\n" ends a line.
NL == "\n"
KEY_ACCESS  == "TWITCH_ACCESS_TOKEN="
KEY_REFRESH == "TWITCH_REFRESH_TOKEN="
KEY_OTHER   == "TWITCH_CLIENT_ID="

\* f.readlines(): the lines of the content, each with its ending "\n"; only the
\* last line can lack it.
RECURSIVE readlines(_)
readlines(content) ==
    IF content = <<>> THEN <<>>
    ELSE LET ends == {i \in 1..Len(content) : content[i] = NL}
         IN  IF ends = {} THEN <<content>>
             ELSE LET e == CHOOSE i \in ends : \A j \in ends : i <= j
                  IN  <<SubSeq(content, 1, e)>>
                        \o readlines(SubSeq(content, e + 1, Len(content)))

\* f.writelines(lines): the lines one after the other, nothing added.
RECURSIVE writelines(_)
writelines(lines) ==
    IF lines = <<>> THEN <<>> ELSE Head(lines) \o writelines(Tail(lines))

\* line.startswith(key)
startswith(line, key) == Len(line) >= 1 /\ line[1] = key

AccessLine(access_token)         == <<KEY_ACCESS, access_token, NL>>
RefreshLine(refresh_token_value) == <<KEY_REFRESH, refresh_token_value, NL>>

\* The for loop of update_env_file over the lines read.
RECURSIVE ReplaceLines(_, _, _)
ReplaceLines(lines, access_token, refresh_token_value) ==
    IF lines = <<>> THEN <<>>
    ELSE LET line == Head(lines)
             out  == IF startswith(line, KEY_ACCESS) THEN AccessLine(access_token)
                     ELSE IF startswith(line, KEY_REFRESH)
                          THEN RefreshLine(refresh_token_value)
                          ELSE line
         IN  <<out>> \o ReplaceLines(Tail(lines), access_token, refresh_token_value)

\* new_lines as it stands before the file is opened for writing.
NewLines(lines, access_token, refresh_token_value) ==
    LET access_updated  == \E i \in 1..Len(lines) : startswith(lines[i], KEY_ACCESS)
        refresh_updated == \E i \in 1..Len(lines) : startswith(lines[i], KEY_REFRESH)
    IN  ReplaceLines(lines, access_token, refresh_token_value)
          \o (IF access_updated THEN <<>> ELSE <<AccessLine(access_token)>>)
          \o (IF refresh_updated THEN <<>> ELSE <<RefreshLine(refresh_token_value)>>)

\* What the file system does to one call of update_env_file: the call goes
\* through, open() fails (for reading or for writing, the file is left as it
\* was), or the write fails (or the process dies) after open(.., "w") has
\* truncated the file and `written` atoms, any number short of all, have
\* reached it.
IOOutcomes(content, access_token, refresh_token_value) ==
    LET full == writelines(NewLines(readlines(content), access_token, refresh_token_value))
    IN  {[io |-> "ok", written |-> Len(full)], [io |-> "open_error", written |-> 0]}
          \cup {[io |-> "write_error", written |-> k] : k \in 0..(Len(full) - 1)}

\* update_env_file: the content of .env after the call.  IOError is caught
\* inside, so the call always returns.
update_env_file(content, access_token, refresh_token_value, fs) ==
    LET full == writelines(NewLines(readlines(content), access_token, refresh_token_value))
    IN  IF fs.io = "ok" THEN full
        ELSE IF fs.io = "open_error" THEN content
        ELSE SubSeq(full, 1, fs.written)

\* "".join of the atoms of a value.
RECURSIVE Join(_)
Join(atoms) == IF atoms = <<>> THEN "" ELSE Head(atoms) \o Join(Tail(atoms))

\* os.getenv(key) after load_dotenv() on a fresh start: the value of the last
\* line of the file that defines key, None when no line does.  The value is
\* what stands between the key and the end of the line, "" when nothing does.
getenv(content, key) ==
    LET lines == readlines(content)
        defs  == {i \in 1..Len(lines) : startswith(lines[i], key)}
        value(line) == Join(SelectSeq(Tail(line), LAMBDA x : x # NL))
    IN  IF defs = {} THEN None
        ELSE value(lines[CHOOSE i \in defs : \A j \in defs : j <= i])

\* The .env file the configured pair was loaded from.
InitialEnvFiles ==
    { <<KEY_OTHER, "id", NL>> \o AccessLine(TWITCH_ACCESS_TOKEN)
          \o RefreshLine(TWITCH_REFRESH_TOKEN) }

\* What a line of .env can hold before its "\n": another setting, one of the
\* two token settings, or nothing.
LineBodies == { <<KEY_OTHER, "id">>, <<KEY_ACCESS, AccessTok(1)>>,
                <<KEY_REFRESH, RefreshTok(1)>>, <<>> }

\* The contents of k lines, each ended by "\n".
RECURSIVE TerminatedFiles(_)
TerminatedFiles(k) ==
    IF k = 0 THEN {<<>>}
    ELSE {f \o b \o <<NL>> : f \in TerminatedFiles(k - 1), b \in LineBodies}

\* The .env files open(env_path, "r") can find: up to MaxLines lines, the
\* last one with or without its "\n".
EnvFiles ==
    UNION {TerminatedFiles(k) : k \in 0..MaxLines}
      \cup UNION {{f \o b : f \in TerminatedFiles(k), b \in LineBodies} :
                     k \in 0..(MaxLines - 1)}

\* ------------------------------------------------- the identity provider
\* What requests.get / requests.post can give back.  exc: the call raised
\* requests.RequestException.
ExpiresValues == {RefreshThreshold - 1, RefreshThreshold}
ScopeSets == { RequiredScopes, {"chat:read"},
               RequiredScopes \cup {"user:read:chat"} }
ValResponses ==
    {[exc |-> TRUE, status |-> 0, expires_in |-> 0, scopes |-> {}],
     [exc |-> FALSE, status |-> 401, expires_in |-> 0, scopes |-> {}]}
      \cup {[exc |-> FALSE, status |-> 200, expires_in |-> e, scopes |-> s] :
               e \in ExpiresValues, s \in ScopeSets}

\* n pairs exist so far; a 200 response carries the next pair.
RefreshResponses(n) ==
    {[exc |-> TRUE, status |-> 0, access_token |-> None, refresh_token |-> None],
     [exc |-> FALSE, status |-> 400, access_token |-> None, refresh_token |-> None]}
      \cup (IF n < MaxIssue
            THEN {[exc |-> FALSE, status |-> 200, access_token |-> AccessTok(n + 1),
                   refresh_token |-> RefreshTok(n + 1)]}
            ELSE {})

\* validate_token: (expires_in, scopes) on 200, (0, []) on another status and
\* the bare integer 0 when the request raised.
validate_token(response) ==
    IF response.exc
    THEN [tuple |-> FALSE, expires_in |-> 0, scopes |-> {}]
    ELSE IF response.status = 200
         THEN [tuple |-> TRUE, expires_in |-> response.expires_in,
               scopes |-> response.scopes]
         ELSE [tuple |-> TRUE, expires_in |-> 0, scopes |-> {}]

\* refresh_access_token: the new pair on 200, (None, None) otherwise.
refresh_access_token(response) ==
    IF response.exc THEN <<None, None>>
    ELSE IF response.status = 200
         THEN <<response.access_token, response.refresh_token>>
         ELSE <<None, None>>

\* Python truth of a token value.
Truthy(v) == v # None /\ v # ""

\* "if new_access_token and new_refresh_token"
RefreshSucceeded_Unchecked(new_access_token, new_refresh_token) == TRUE
RefreshSucceeded(new_access_token, new_refresh_token) ==
    Truthy(new_access_token) /\ Truthy(new_refresh_token)

\* The refresh condition of each credential check.
NeedsRefresh_LE(site, expires_in, scopes) ==
    IF site = "main"
    THEN expires_in <= RefreshThreshold \/ ~(RequiredScopes \subseteq scopes)
    ELSE expires_in <= RefreshThreshold
NeedsRefresh(site, expires_in, scopes) ==
    IF site = "main"
    THEN expires_in < RefreshThreshold \/ ~(RequiredScopes \subseteq scopes)
    ELSE expires_in < RefreshThreshold

\* ------------------------------------------------------ the Google sheet
PyNone   == [t |-> "None", v |-> 0]
PyInt(n) == [t |-> "int", v |-> n]
PyTruthy(p) == p.t = "int" /\ p.v # 0

Usernames == {"alice", "Bob"}
lower(name) == IF name = "Alice" THEN "alice" ELSE IF name = "Bob" THEN "bob" ELSE name

\* record.get(key, default)
Get(record, key, default) == IF key \in DOMAIN record THEN record[key] ELSE default

\* What sheet.get_all_records() can give back: it raises, or the rows.
SheetFetches ==
    {[exc |-> TRUE, records |-> <<>>]}
      \cup {[exc |-> FALSE, records |-> r] :
              r \in { <<>>,
                      <<[Username |-> "Alice", Tokens |-> 5]>>,
                      <<[Username |-> "alice", Tokens |-> 0]>>,
                      <<[Username |-> "bob"], [Username |-> "Alice", Tokens |-> 5]>> }}

\* The for loop of get_user_points: the first matching record decides.
RECURSIVE FirstMatch(_, _)
FirstMatch(records, username) ==
    IF records = <<>> THEN PyInt(0)
    ELSE IF lower(Get(Head(records), "Username", "")) = lower(username)
         THEN PyInt(Get(Head(records), "Tokens", 0))
         ELSE FirstMatch(Tail(records), username)

\* get_user_points: None when the sheet was not initialised or the fetch raised.
get_user_points(sheet_ok, fetch, username) ==
    IF ~sheet_ok THEN PyNone
    ELSE IF fetch.exc THEN PyNone
    ELSE FirstMatch(fetch.records, username)

\* The reply of check_balance for the points looked up.
BalanceReply(author, points) ==
    IF PyTruthy(points)
    THEN [text |-> "you have tokens", user |-> author, points |-> points]
    ELSE [text |-> "Error retrieving tokens", user |-> author, points |-> PyNone]
ExpiredReply == [text |-> "Bot token expired.", user |-> "", points |-> PyNone]
OnlineMessage == [text |-> "Bot is online!", user |-> "", points |-> PyNone]

\* The validation results for which the credential check is to refresh: the
\* condition the startup block tests.
SpecWantsRefresh(expires_in, scopes) ==
    expires_in < RefreshThreshold \/ ~(RequiredScopes \subseteq scopes)

\* ---------------------------------------------------------------- state
VARIABLES
    pc,                   \* pc[t]: the statement task t executes next
    running,              \* the task holding the event-loop thread, or NoTask
    loc,                  \* loc[t]: the local variables of task t
    access_token,         \* Bot.access_token
    refresh_token_value,  \* Bot.refresh_token_value
    conn_token,           \* Bot._connection._token
    env,                  \* content of the .env file
    sheet_ok,             \* the module-level sheet is not None
    issued,               \* pairs the identity provider has issued so far
    exit_status,          \* exit status of the process, None while it runs
    sent,                 \* sent[t]: chat messages task t has sent since it started
    chk,                  \* chk[t]: record of the credential check t is in (history)
    hist                  \* refresh calls made so far (history)

vars == <<pc, running, loc, access_token, refresh_token_value, conn_token, env,
          sheet_ok, issued, exit_status, sent, chk, hist>>

Main   == <<"main", 0>>
NoTask == <<"none", 0>>
Readys == {<<"ready", i>> : i \in 1..MaxReady}
Loops  == {<<"loop", i>> : i \in 1..MaxReady}
Cmds   == {<<"cmd", i>> : i \in 1..MaxCmds}
Tasks  == {Main} \cup Readys \cup Loops \cup Cmds
BotTasks == Loops \cup Cmds
Site(t) == t[1]

\* The statements at which a task gives up the thread: the awaits of
\* event_ready (channel.send), token_refresh_loop (asyncio.sleep) and
\* check_balance (ctx.send).  Everything else runs to the next await.
AwaitPcs_AsyncRefresh == {"await_online", "await_sleep", "await_expired", "await_reply",
                          "refresh_wait"}
AwaitPcs == {"await_online", "await_sleep", "await_expired", "await_reply"}
EndPcs == {"idle", "done", "crashed", "exited", "serving"}

\* The holder of the thread once task t stands at statement p.
Hold(t, p) == IF p \in AwaitPcs \cup EndPcs THEN NoTask ELSE t
\* Task t can take its next step.
CanRun(t) == running = t \/ (running = NoTask /\ pc[t] \in AwaitPcs \cup {"created"})

NoLocals == [expires_in |-> 0, scopes |-> {}, new_access_token |-> None,
             new_refresh_token |-> None, access_token |-> None, arg |-> None,
             author |-> "", points |-> PyNone]
\* vkind: how validation answered; wanted: it answered with a lifetime under
\* the threshold or without a required scope; nref, npersist, nlookup: refresh calls,
\* update_env_file calls and sheet lookups made; out: how the check ended;
\* logged: logging.error was called; pfail: update_env_file caught an IOError;
\* snap: the credential and store the check found.
NoCheck == [vkind |-> "none", wanted |-> FALSE, nref |-> 0, npersist |-> 0, nlookup |-> 0,
            out |-> "none", logged |-> FALSE, pfail |-> FALSE, snap |-> <<>>]
\* calls: refresh calls the bot's tasks made with the refresh token the bot
\* holds now (2: two or more); consumed: <<r, site>> for each call with refresh
\* token r the provider honoured.
NoHist == [calls |-> 0, consumed |-> {}]

\* The credential and store as a check finds them.
Snapshot(t) ==
    IF t = Main THEN <<loc[t].access_token, TWITCH_REFRESH_TOKEN, None, env>>
    ELSE <<access_token, refresh_token_value, conn_token, env>>

Init ==
    /\ pc = [t \in Tasks |-> IF t = Main THEN "validate" ELSE "idle"]
    /\ running = Main
    /\ loc = [t \in Tasks |->
                IF t = Main THEN [NoLocals EXCEPT !.access_token = TWITCH_ACCESS_TOKEN]
                ELSE NoLocals]
    /\ access_token = None
    /\ refresh_token_value = None
    /\ conn_token = None
    /\ env \in InitialEnvFiles
    /\ sheet_ok \in BOOLEAN
    /\ issued = 1
    /\ exit_status = PyNone
    /\ sent = [t \in Tasks |-> <<>>]
    /\ chk = [t \in Tasks |-> NoCheck]
    /\ hist = NoHist

\* Task t moves to statement p; the thread follows.
Goto(t, p) ==
    /\ pc' = [pc EXCEPT ![t] = p]
    /\ running' = Hold(t, p)

\* Where each site goes after its check.
OkPc(site)   == IF site = "main" THEN "construct" ELSE IF site = "loop" THEN "sleep" ELSE "lookup"
FailPc_NoExit(site) ==
    IF site = "main" THEN "construct" ELSE IF site = "loop" THEN "sleep" ELSE "send_expired"
FailPc_NoReturn(site) ==
    IF site = "main" THEN "exit" ELSE IF site = "loop" THEN "sleep" ELSE "lookup"
FailPc(site) == IF site = "main" THEN "exit" ELSE IF site = "loop" THEN "sleep" ELSE "send_expired"

\* ------------------------------------------- the credential check, by statement
\* expires_in, scopes = validate_token(token): lines 199, 144, 178.  Unpacking
\* the bare 0 that validate_token returns after a RequestException raises
\* TypeError, which nothing catches: the task dies; at startup the process
\* dies of the uncaught exception, with status 1.
ValidateStep(t) ==
    /\ pc[t] = "validate" /\ CanRun(t)
    /\ \E response \in ValResponses :
         LET ret  == validate_token(response)
             kind == IF response.exc THEN "neterr"
                     ELSE IF response.status = 200 THEN "ok" ELSE "non200"
             need == NeedsRefresh(Site(t), ret.expires_in, ret.scopes)
         IN  IF ~ret.tuple
             THEN /\ Goto(t, "crashed")
                  /\ loc' = [loc EXCEPT ![t] = NoLocals]
                  /\ chk' = [chk EXCEPT ![t] = [NoCheck EXCEPT !.vkind = kind,
                                                  !.out = "raised", !.logged = TRUE]]
                  /\ exit_status' = IF t = Main THEN PyInt(ExitFailure) ELSE exit_status
             ELSE /\ Goto(t, IF need THEN "refresh" ELSE OkPc(Site(t)))
                  /\ loc' = [loc EXCEPT ![t].expires_in = ret.expires_in,
                                        ![t].scopes = ret.scopes]
                  /\ chk' = [chk EXCEPT ![t] = [NoCheck EXCEPT !.vkind = kind,
                                                  !.out = IF need THEN "none" ELSE "ok",
                                                  !.wanted = SpecWantsRefresh(ret.expires_in, ret.scopes),
                                                  !.snap = Snapshot(t)]]
                  /\ UNCHANGED exit_status
    /\ UNCHANGED <<access_token, refresh_token_value, conn_token, env, sheet_ok,
                   issued, sent, hist>>

\* refresh_access_token(...) is entered: the request leaves with the refresh
\* token read now (TWITCH_REFRESH_TOKEN at startup, self.refresh_token_value
\* in the bot): lines 202, 146, 180 and 72.
RefreshCall(t) ==
    /\ pc[t] = "refresh" /\ CanRun(t)
    /\ LET r == IF t = Main THEN TWITCH_REFRESH_TOKEN ELSE refresh_token_value
       IN  /\ loc' = [loc EXCEPT ![t].arg = r, ![t].expires_in = 0, ![t].scopes = {}]
           /\ hist' = IF t \in BotTasks
                      THEN [hist EXCEPT !.calls = IF @ < 2 THEN @ + 1 ELSE @]
                      ELSE hist
    /\ chk' = [chk EXCEPT ![t].nref = @ + 1]
    /\ Goto(t, "refresh_wait")
    /\ UNCHANGED <<access_token, refresh_token_value, conn_token, env, sheet_ok,
                   issued, exit_status, sent>>

\* The response arrives and refresh_access_token returns; "if new_access_token
\* and new_refresh_token" picks the branch: lines 72-84, 203, 147, 181.
RefreshReturn(t) ==
    /\ pc[t] = "refresh_wait" /\ CanRun(t)
    /\ \E response \in RefreshResponses(issued) :
         LET pair == refresh_access_token(response)
             ok   == RefreshSucceeded(pair[1], pair[2])
         IN  /\ issued' = IF ~response.exc /\ response.status = 200
                          THEN issued + 1 ELSE issued
             /\ loc' = [loc EXCEPT ![t].new_access_token = pair[1],
                                   ![t].new_refresh_token = pair[2]]
             /\ hist' = IF ~response.exc /\ response.status = 200
                        THEN [hist EXCEPT !.consumed = @ \cup {<<loc[t].arg, Site(t)>>}]
                        ELSE hist
             /\ chk' = IF ok THEN chk
                       ELSE [chk EXCEPT ![t].out = "fail", ![t].logged = TRUE]
             /\ Goto(t, IF ok THEN "assign_access" ELSE FailPc(Site(t)))
    /\ UNCHANGED <<access_token, refresh_token_value, conn_token, env, sheet_ok,
                   exit_status, sent>>

\* access_token = new_access_token (the local of the startup block, line 204)
\* or self.access_token = new_access_token (lines 148, 182).
AssignAccess(t) ==
    /\ pc[t] = "assign_access" /\ CanRun(t)
    /\ IF t = Main
       THEN /\ loc' = [loc EXCEPT ![t].access_token = loc[t].new_access_token]
            /\ Goto(t, "persist")
            /\ UNCHANGED access_token
       ELSE /\ access_token' = loc[t].new_access_token
            /\ Goto(t, "assign_refresh")
            /\ UNCHANGED loc
    /\ UNCHANGED <<refresh_token_value, conn_token, env, sheet_ok, issued,
                   exit_status, sent, chk, hist>>

\* self.refresh_token_value = new_refresh_token: lines 149, 183.
AssignRefresh_PersistFirst(t) ==
    /\ pc[t] = "assign_refresh" /\ CanRun(t)
    /\ refresh_token_value' = loc[t].new_refresh_token
    /\ hist' = [hist EXCEPT !.calls = 0]
    /\ Goto(t, "persist")
    /\ UNCHANGED <<loc, access_token, conn_token, env, sheet_ok, issued,
                   exit_status, sent, chk>>
AssignRefresh(t) ==
    /\ pc[t] = "assign_refresh" /\ CanRun(t)
    /\ refresh_token_value' = loc[t].new_refresh_token
    /\ hist' = [hist EXCEPT !.calls = 0]
    /\ Goto(t, "assign_conn")
    /\ UNCHANGED <<loc, access_token, conn_token, env, sheet_ok, issued,
                   exit_status, sent, chk>>

\* self._connection._token = new_access_token: lines 150, 184.
AssignConn_NoUpdate(t) ==
    /\ pc[t] = "assign_conn" /\ CanRun(t)
    /\ Goto(t, "persist")
    /\ UNCHANGED <<loc, access_token, refresh_token_value, conn_token, env, sheet_ok,
                   issued, exit_status, sent, chk, hist>>
AssignConn(t) ==
    /\ pc[t] = "assign_conn" /\ CanRun(t)
    /\ conn_token' = loc[t].new_access_token
    /\ Goto(t, "persist")
    /\ UNCHANGED <<loc, access_token, refresh_token_value, env, sheet_ok, issued,
                   exit_status, sent, chk, hist>>

\* update_env_file(new_access_token, new_refresh_token): lines 205, 151, 185.
Persist(t) ==
    /\ pc[t] = "persist" /\ CanRun(t)
    /\ \E fs \in IOOutcomes(env, loc[t].new_access_token, loc[t].new_refresh_token) :
         /\ env' = update_env_file(env, loc[t].new_access_token,
                                   loc[t].new_refresh_token, fs)
         /\ chk' = [chk EXCEPT ![t].npersist = @ + 1, ![t].out = "ok",
                               ![t].logged = (@ \/ fs.io # "ok"),
                               ![t].pfail = (fs.io # "ok")]
    /\ Goto(t, OkPc(Site(t)))
    /\ UNCHANGED <<loc, access_token, refresh_token_value, conn_token, sheet_ok,
                   issued, exit_status, sent, hist>>

\* ------------------------------------------------------------ __main__
\* logging.error("Failed to refresh token at startup. Exiting."); exit(1)
StartupExit ==
    /\ pc[Main] = "exit" /\ CanRun(Main)
    /\ exit_status' = PyInt(ExitFailure)
    /\ Goto(Main, "exited")
    /\ UNCHANGED <<loc, access_token, refresh_token_value, conn_token, env, sheet_ok,
                   issued, sent, chk, hist>>

\* bot = Bot(access_token): Bot.__init__ hands the token to the connection,
\* keeps it, and takes the refresh token from the module-level constant.
Construct ==
    /\ pc[Main] = "construct" /\ CanRun(Main)
    /\ conn_token' = loc[Main].access_token
    /\ access_token' = loc[Main].access_token
    /\ refresh_token_value' = TWITCH_REFRESH_TOKEN
    /\ Goto(Main, "run")
    /\ UNCHANGED <<loc, env, sheet_ok, issued, exit_status, sent, chk, hist>>

\* bot.run(): the event loop takes the thread and serves events.
Run ==
    /\ pc[Main] = "run" /\ CanRun(Main)
    /\ Goto(Main, "serving")
    /\ loc' = [loc EXCEPT ![Main] = NoLocals]
    /\ chk' = [chk EXCEPT ![Main] = NoCheck]
    /\ UNCHANGED <<access_token, refresh_token_value, conn_token, env, sheet_ok,
                   issued, exit_status, sent, hist>>

\* The startup block, statement by statement.
main ==
    \/ ValidateStep(Main) \/ RefreshCall(Main) \/ RefreshReturn(Main)
    \/ AssignAccess(Main) \/ Persist(Main)
    \/ StartupExit \/ Construct \/ Run

\* ------------------------------------------------------------ event_ready
\* The ready event arrives (at connect, and again after a reconnect):
\* await channel.send("Bot is online!").
ReadyDelivered(t) ==
    /\ pc[t] = "idle" /\ pc[Main] = "serving" /\ running = NoTask
    /\ \A u \in Readys : u[2] < t[2] => pc[u] = "done"
    /\ sent' = [sent EXCEPT ![t] = Append(@, OnlineMessage)]
    /\ Goto(t, "await_online")
    /\ UNCHANGED <<loc, access_token, refresh_token_value, conn_token, env, sheet_ok,
                   issued, exit_status, chk, hist>>

\* self.loop.create_task(self.token_refresh_loop())
CreateLoopTask(t) ==
    /\ pc[t] = "await_online" /\ CanRun(t)
    /\ pc' = [pc EXCEPT ![t] = "done", ![<<"loop", t[2]>>] = "created"]
    /\ running' = Hold(t, "done")
    /\ UNCHANGED <<loc, access_token, refresh_token_value, conn_token, env, sheet_ok,
                   issued, exit_status, sent, chk, hist>>

event_ready(t) == ReadyDelivered(t) \/ CreateLoopTask(t)

\* ------------------------------------------------------ token_refresh_loop
\* "while True:" is entered, at the task's first run or after the sleep.
LoopIteration(t) ==
    /\ pc[t] \in {"created", "await_sleep"} /\ CanRun(t)
    /\ Goto(t, "validate")
    /\ UNCHANGED <<loc, access_token, refresh_token_value, conn_token, env, sheet_ok,
                   issued, exit_status, sent, chk, hist>>

\* await asyncio.sleep(300)
Sleep(t) ==
    /\ pc[t] = "sleep" /\ CanRun(t)
    /\ Goto(t, "await_sleep")
    /\ loc' = [loc EXCEPT ![t] = NoLocals]
    /\ chk' = [chk EXCEPT ![t] = NoCheck]
    /\ UNCHANGED <<access_token, refresh_token_value, conn_token, env, sheet_ok,
                   issued, exit_status, sent, hist>>

token_refresh_loop(t) ==
    \/ LoopIteration(t) \/ ValidateStep(t) \/ RefreshCall(t) \/ RefreshReturn(t)
    \/ AssignAccess(t) \/ AssignRefresh(t) \/ AssignConn(t) \/ Persist(t)
    \/ Sleep(t)

\* ------------------------------------------------------------ check_balance
\* A "!balance" message arrives: event_message -> handle_commands -> check_balance.
event_message(t) ==
    /\ pc[t] \in {"idle", "crashed"} /\ pc[Main] = "serving" /\ running = NoTask
    /\ \A u \in Cmds : u[2] < t[2] => pc[u] \notin {"idle", "crashed"}
    /\ \E author \in Usernames : loc' = [loc EXCEPT ![t].author = author]
    /\ chk' = [chk EXCEPT ![t] = NoCheck]
    /\ Goto(t, "validate")
    /\ UNCHANGED <<access_token, refresh_token_value, conn_token, env, sheet_ok,
                   issued, exit_status, sent, hist>>

\* await ctx.send("Bot token expired."); return.  The credential check is
\* over: of its record only the outcome is kept.
SendExpired(t) ==
    /\ pc[t] = "send_expired" /\ CanRun(t)
    /\ sent' = [sent EXCEPT ![t] = Append(@, ExpiredReply)]
    /\ Goto(t, "await_expired")
    /\ loc' = [loc EXCEPT ![t] = NoLocals]
    /\ chk' = [chk EXCEPT ![t] = [NoCheck EXCEPT !.out = chk[t].out]]
    /\ UNCHANGED <<access_token, refresh_token_value, conn_token, env, sheet_ok,
                   issued, exit_status, hist>>

\* points = self.get_user_points(ctx.author.name).  The credential check is
\* over: its locals are not read again, and of its record only the outcome
\* is kept.
Lookup(t) ==
    /\ pc[t] = "lookup" /\ CanRun(t)
    /\ \E fetch \in SheetFetches :
         loc' = [loc EXCEPT ![t] =
                    [NoLocals EXCEPT !.author = loc[t].author,
                                     !.points = get_user_points(sheet_ok, fetch, loc[t].author)]]
    /\ chk' = [chk EXCEPT ![t] = [NoCheck EXCEPT !.out = chk[t].out,
                                                 !.nlookup = chk[t].nlookup + 1]]
    /\ Goto(t, "reply")
    /\ UNCHANGED <<access_token, refresh_token_value, conn_token, env, sheet_ok,
                   issued, exit_status, sent, hist>>

\* "if points:" and the await ctx.send(...) of the branch taken.
Reply(t) ==
    /\ pc[t] = "reply" /\ CanRun(t)
    /\ sent' = [sent EXCEPT ![t] = Append(@, BalanceReply(loc[t].author, loc[t].points))]
    /\ Goto(t, "await_reply")
    /\ UNCHANGED <<loc, access_token, refresh_token_value, conn_token, env, sheet_ok,
                   issued, exit_status, chk, hist>>

\* The send is over and the handler returns; the next command can be handled.
Return(t) ==
    /\ pc[t] \in {"await_expired", "await_reply"} /\ CanRun(t)
    /\ Goto(t, "idle")
    /\ loc' = [loc EXCEPT ![t] = NoLocals]
    /\ chk' = [chk EXCEPT ![t] = NoCheck]
    /\ sent' = [sent EXCEPT ![t] = <<>>]
    /\ UNCHANGED <<access_token, refresh_token_value, conn_token, env, sheet_ok,
                   issued, exit_status, hist>>

check_balance(t) ==
    \/ ValidateStep(t) \/ RefreshCall(t) \/ RefreshReturn(t)
    \/ AssignAccess(t) \/ AssignRefresh(t) \/ AssignConn(t) \/ Persist(t)
    \/ SendExpired(t) \/ Lookup(t) \/ Reply(t) \/ Return(t)

\* ---------------------------------------------------------------- the program
Next ==
    \/ main
    \/ \E t \in Readys : event_ready(t)
    \/ \E t \in Loops : token_refresh_loop(t)
    \/ \E t \in Cmds : event_message(t) \/ check_balance(t)

Spec == Init /\ [][Next]_vars

\* ================================================================ claims
\* Task t has just ended its credential check and still holds the thread.
Finished(t) ==
    running = t /\ pc[t] \in {"construct", "exit", "sleep", "lookup", "send_expired"}
\* The refresh call of t's check returned a new pair.
NewPair(t) == <<loc[t].new_access_token, loc[t].new_refresh_token>>
Refreshed(t) ==
    chk[t].nref >= 1 /\ NewPair(t)[1] # None /\ NewPair(t)[2] # None
\* The refresh call of t's check returned (None, None).
RefreshFailed(t) ==
    chk[t].nref >= 1 /\ pc[t] # "refresh_wait" /\ NewPair(t) = <<None, None>>
InMemoryPair == <<access_token, refresh_token_value>>
StoredPair == <<getenv(env, KEY_ACCESS), getenv(env, KEY_REFRESH)>>
BotSites == {"loop", "cmd"}
ConsumedByBot == {c \in hist.consumed : c[2] \in BotSites}
InFlight == {t \in BotTasks : pc[t] = "refresh_wait"}
MidCheckPcs == {"validate", "refresh", "refresh_wait", "assign_access",
                "assign_refresh", "assign_conn", "persist"}

\* C1 (as stated): over the checks of token_refresh_loop and check_balance, at
\* most one refresh call is in flight, no more than one refresh call is made
\* with the refresh token the bot holds, and no task runs while another is
\* between its validation and the end of its update.
C1_OneCallPerRefreshToken ==
    /\ Cardinality(InFlight) <= 1
    /\ hist.calls <= 1
    /\ \A t \in BotTasks : pc[t] \in MidCheckPcs => running = t

\* C1 (amended): at most one refresh call is in flight; a task is never
\* suspended between its validation and the end of its update, so no other
\* task sees the pair half-replaced; a refresh token that a call of these
\* tasks rotated is never presented by them again (a token is presented again
\* only after the call with it failed); and once one of them has refreshed,
\* every task scheduled finds the pair returned by the latest refresh call.
C1_SingleFlight ==
    /\ Cardinality(InFlight) <= 1
    /\ \A t \in BotTasks : pc[t] \in MidCheckPcs => running = t
    /\ \A t \in InFlight : \A s \in BotSites : <<loc[t].arg, s>> \notin hist.consumed
    /\ running = NoTask =>
         /\ \A s \in BotSites : <<refresh_token_value, s>> \notin hist.consumed
         /\ ConsumedByBot # {} =>
              InMemoryPair = <<AccessTok(issued), RefreshTok(issued)>>

\* C1 witness: two rotations by the bot's tasks, one by the loop and one by a command, and
\* the command is suspended in its reply while the loop sleeps.
C1_Witness ==
    /\ running = NoTask
    /\ \E r1, r2 \in {RefreshTok(n) : n \in 1..MaxIssue} :
         r1 # r2 /\ <<r1, "loop">> \in hist.consumed /\ <<r2, "cmd">> \in hist.consumed
    /\ \E t \in Cmds : pc[t] = "await_reply"
    /\ \E t \in Loops : pc[t] = "await_sleep"

\* C2: at each site, a validation answer with at least 300 seconds left and
\* every required scope ends the check with no refresh call and no persist,
\* with the credential, the connection token and the store as the check found
\* them, and on the success path of the site.
C2_FreshTokenNoRefresh ==
    \A t \in Tasks :
        (Finished(t) /\ chk[t].vkind = "ok" /\ ~chk[t].wanted) =>
            /\ chk[t].nref = 0
            /\ chk[t].npersist = 0
            /\ Snapshot(t) = chk[t].snap
            /\ chk[t].out = "ok"
            /\ pc[t] = OkPc(Site(t))

\* C2 witness: a check_balance check has just ended on a 200 answer with
\* exactly 300 seconds left and the required scopes, without a refresh call.
C2_Witness ==
    \E t \in Cmds :
        /\ Finished(t) /\ chk[t].vkind = "ok" /\ ~chk[t].wanted
        /\ pc[t] = "lookup" /\ chk[t].nref = 0
        /\ loc[t].expires_in = RefreshThreshold

\* C3: at each site, a validation answer with less than 300 seconds left or a
\* required scope missing ends the check with exactly one refresh call made.
C3_ExactlyOneRefresh ==
    \A t \in Tasks :
        (Finished(t) /\ chk[t].vkind \in {"ok", "non200"} /\ chk[t].wanted) =>
            chk[t].nref = 1

\* C4: after a refresh that succeeded and whose persist succeeded, the pair
\* the bot holds and the pair read back from .env both are the pair the
\* refresh returned (at startup: once the Bot is constructed).
C4_MemoryAndStoreHoldNewPair ==
    \A t \in Tasks :
        (/\ running = t
         /\ pc[t] \in (IF t = Main THEN {"run"} ELSE {"sleep", "lookup"})
         /\ Refreshed(t) /\ chk[t].npersist = 1 /\ ~chk[t].pfail) =>
            /\ InMemoryPair = NewPair(t)
            /\ StoredPair = NewPair(t)

\* C5: in token_refresh_loop and check_balance, a refresh call that fails
\* leaves the bot's tokens, the connection token and the store as the check
\* found them, persists nothing, and the check ends as failed: the error is
\* logged and check_balance goes to its "Bot token expired." branch.
C5_FailedRefreshChangesNothing ==
    \A t \in BotTasks :
        (RefreshFailed(t) /\ running = t) =>
            /\ Snapshot(t) = chk[t].snap
            /\ chk[t].npersist = 0
            /\ chk[t].out = "fail" /\ chk[t].logged
            /\ pc[t] = FailPc(Site(t))

\* C5 witness: after an earlier rotation, the refresh call of a check_balance
\* check has failed and the handler is about to send "Bot token expired.".
C5_Witness ==
    \E t \in Cmds :
        /\ RefreshFailed(t) /\ Finished(t) /\ pc[t] = "send_expired"
        /\ \E n \in 2..MaxIssue : InMemoryPair = <<AccessTok(n), RefreshTok(n)>>

\* C6: a startup check that fails ends the process with a non-zero status
\* before any Bot exists; the connection is only ever given a token that the
\* startup validation accepted or that the startup refresh just returned.
C6_StartupGate ==
    /\ pc[Main] \in {"exited", "crashed"} =>
         /\ exit_status.t = "int" /\ exit_status.v # 0
         /\ conn_token = None /\ access_token = None
         /\ \A t \in Tasks \ {Main} : pc[t] = "idle"
    /\ (RefreshFailed(Main) \/ chk[Main].out \in {"fail", "raised"}) =>
         pc[Main] \in {"exit", "exited", "crashed"}
    /\ conn_token # None => pc[Main] \in {"run", "serving"}
    /\ pc[Main] = "run" =>
         \/ /\ chk[Main].nref = 0 /\ chk[Main].vkind = "ok" /\ ~chk[Main].wanted
            /\ conn_token = TWITCH_ACCESS_TOKEN
         \/ /\ chk[Main].nref = 1 /\ Refreshed(Main)
            /\ conn_token = loc[Main].new_access_token

\* C6 witness: the startup refresh failed and the process has exited with 1.
C6_Witness ==
    /\ pc[Main] = "exited" /\ exit_status = PyInt(ExitFailure)
    /\ chk[Main].nref = 1 /\ chk[Main].out = "fail"

\* C7: at each site a validation that failed (another status than 200, or a
\* network error) is followed by a refresh call, and no exception leaves the
\* check.
C7_ValidationFailureForcesRefresh ==
    \A t \in Tasks :
        chk[t].vkind \in {"non200", "neterr"} =>
            /\ pc[t] # "crashed" /\ chk[t].out # "raised"
            /\ pc[t] = "refresh" \/ chk[t].nref >= 1

\* C8: at each site, when update_env_file fails after a successful refresh,
\* the check still ends as a success and the bot's tokens and the connection
\* token are the pair the refresh returned (at startup: once the Bot is
\* constructed and about to run).
C8_PersistFailureKeepsNewCredential ==
    \A t \in Tasks :
        (/\ running = t
         /\ pc[t] \in (IF t = Main THEN {"run"} ELSE {"sleep", "lookup"})
         /\ Refreshed(t) /\ chk[t].pfail) =>
            /\ chk[t].out = "ok"
            /\ InMemoryPair = NewPair(t)
            /\ conn_token = loc[t].new_access_token

\* C9: a check_balance whose check failed sends "Bot token expired." and
\* nothing else, and looks nothing up; one whose check succeeded makes one
\* lookup and sends one reply; the handler raises in neither case.
C9_BalanceHandlerOutcomes ==
    \A t \in Cmds :
        /\ Len(sent[t]) <= 1 /\ chk[t].nlookup <= 1
        /\ chk[t].out = "fail" =>
             /\ pc[t] \in {"send_expired", "await_expired"}
             /\ chk[t].nlookup = 0
             /\ pc[t] = "await_expired" => sent[t] = <<ExpiredReply>>
        /\ chk[t].out = "ok" =>
             /\ pc[t] \in {"lookup", "reply", "await_reply"}
             /\ pc[t] = "reply" => chk[t].nlookup = 1 /\ sent[t] = <<>>
             /\ pc[t] = "await_reply" =>
                  /\ chk[t].nlookup = 1 /\ Len(sent[t]) = 1
                  /\ sent[t][1].text \in {"you have tokens", "Error retrieving tokens"}
        /\ pc[t] = "await_expired" => chk[t].out = "fail"
        /\ pc[t] = "await_reply" => chk[t].out = "ok"
        /\ pc[t] = "crashed" => chk[t].out = "raised"

\* C9 witness: a handler whose check failed is suspended in the send of
\* "Bot token expired.", its only message.
C9_Witness ==
    \E t \in Cmds :
        pc[t] = "await_expired" /\ sent[t] = <<ExpiredReply>> /\ chk[t].out = "fail"

\* C10: the reply of the balance command for a balance of 0 (user absent from
\* the sheet, or present with 0) differs from its reply for a failed lookup.
C10_ZeroDistinctFromFailure ==
    \A t \in Cmds :
        (pc[t] = "await_reply" /\ loc[t].points = PyInt(0)) =>
            sent[t][1] # BalanceReply(loc[t].author, PyNone)

\* Some task stands between "self.access_token = ..." and
\* "self.refresh_token_value = ...": lines 148-149, 182-183.
MidAssignment == \E t \in BotTasks : pc[t] = "assign_refresh"
\* The pairs issued so far: the configured pair and each pair a refresh returned.
IssuedPairs == {<<AccessTok(n), RefreshTok(n)>> : n \in 1..issued}

\* C11: from the construction of the Bot on, outside the two assignments of an
\* update, the access token and the refresh token the bot holds come from the
\* same issuance: the configured pair or the pair one refresh call returned.
C11_MatchedPair ==
    (access_token # None /\ ~MidAssignment) => InMemoryPair \in IssuedPairs

\* C12: a refresh call (startup, token_refresh_loop, check_balance) never
\* presents a refresh token that an earlier call rotated: after a rotation it
\* presents the refresh token of the latest pair issued.
C12_ConsumedNeverPresented ==
    \A t \in Tasks :
        pc[t] = "refresh_wait" =>
            /\ \A c \in hist.consumed : c[1] # loc[t].arg
            /\ hist.consumed # {} => loc[t].arg = RefreshTok(issued)

\* C13: a token_refresh_loop task that has made a tick, whatever validation,
\* refresh and persist answered, is still alive (it has not ended with an
\* exception).
C13_LoopSurvivesEveryTick ==
    \A t \in Loops :
        chk[t].vkind \in {"ok", "non200", "neterr"} => pc[t] # "crashed"

\* C14 (as stated): at each site, update_env_file is called only once the
\* connection token is the new access token.
C14_PersistAfterConnectionToken ==
    \A t \in Tasks : pc[t] = "persist" => conn_token = loc[t].new_access_token

\* C14 (amended): in token_refresh_loop and check_balance update_env_file is
\* called, and has returned, with the connection token already the new access
\* token; at startup it is called while no connection exists yet, and the
\* connection is given the new access token when the Bot is constructed.
C14_PersistOrder ==
    /\ \A t \in BotTasks :
         (pc[t] = "persist" \/ (running = t /\ chk[t].npersist >= 1)) =>
             /\ conn_token = loc[t].new_access_token
             /\ InMemoryPair = NewPair(t)
    /\ pc[Main] = "persist" => conn_token = None /\ access_token = None
    /\ (pc[Main] = "run" /\ chk[Main].npersist >= 1) =>
         conn_token = loc[Main].new_access_token

\* C14 witness: a check_balance is about to persist the pair of the third
\* issuance and the connection token already is its access token.
C14_Witness ==
    \E t \in Cmds :
        /\ pc[t] = "persist" /\ NewPair(t) = <<AccessTok(3), RefreshTok(3)>>
        /\ conn_token = AccessTok(3)

\* A refresh call has been issued and its outcome is not yet in place: the
\* call is in flight, or the new tokens are being assigned.
RefreshingPcs == {"refresh_wait", "assign_access", "assign_refresh", "assign_conn"}
Refreshing == \E t \in Tasks : pc[t] \in RefreshingPcs
\* Some task hands a message to channel.send or ctx.send in this step.
ChatSend == \E t \in Tasks : Len(sent'[t]) > Len(sent[t])

\* C16: no step taken while a refresh call is in flight or its new tokens are
\* being put in place is a chat send, by any task.
C16_NoSendDuringRefresh == [][Refreshing => ~ChatSend]_vars

\* C16 witness: token_refresh_loop has a refresh call in flight while a
\* check_balance handler is suspended in the send of its reply.
C16_Witness ==
    /\ \E t \in Loops : pc[t] = "refresh_wait" /\ running = t
    /\ \E t \in Cmds : pc[t] = "await_reply" /\ Len(sent[t]) = 1

\* The token_refresh_loop tasks that exist: created and not ended.
LoopTasks == {t \in Loops : pc[t] \notin {"idle", "crashed"}}

\* C17: at most one token_refresh_loop task exists, however many ready events
\* were delivered.
C17_SingleLoopTask == Cardinality(LoopTasks) <= 1

\* C18: whenever the bot's tasks are all suspended, the connection token is
\* the access token the bot holds; the Bot leaves its constructor with the two
\* equal, and the task that replaces them keeps the thread between the
\* assignments.
C18_ConnectionTokenInSync ==
    /\ (running = NoTask /\ pc[Main] = "serving") =>
         conn_token = access_token /\ conn_token # None
    /\ pc[Main] = "run" => conn_token = access_token
    /\ \A t \in BotTasks :
         pc[t] \in {"assign_refresh", "assign_conn"} => running = t

\* C18 witness: after a refresh by token_refresh_loop or check_balance, the
\* loop is suspended in its sleep and a handler in its reply, and the
\* connection token is the refreshed access token.
C18_Witness ==
    /\ running = NoTask /\ ConsumedByBot # {}
    /\ \E t \in Loops : pc[t] = "await_sleep"
    /\ \E t \in Cmds : pc[t] = "await_reply"
    /\ conn_token = access_token /\ conn_token = AccessTok(issued)

\* ============================================ update_env_file on any .env file
\* The calls of update_env_file with one pair of new tokens on one file.
EnvInit ==
    /\ pc = [t \in Tasks |-> IF t = Main THEN "persist" ELSE "idle"]
    /\ running = Main
    /\ \E n \in 2..MaxIssue :
         loc = [t \in Tasks |->
                  IF t = Main
                  THEN [NoLocals EXCEPT !.new_access_token = AccessTok(n),
                                        !.new_refresh_token = RefreshTok(n)]
                  ELSE NoLocals]
    /\ access_token = None
    /\ refresh_token_value = None
    /\ conn_token = None
    /\ env \in EnvFiles
    /\ sheet_ok = FALSE
    /\ issued = MaxIssue
    /\ exit_status = PyNone
    /\ sent = [t \in Tasks |-> <<>>]
    /\ chk = [t \in Tasks |-> NoCheck]
    /\ hist = NoHist

\* update_env_file(new_access_token, new_refresh_token), called once and then
\* once more with the same tokens.  chk[Main] keeps the content the call
\* found (snap), whether it caught an IOError (pfail) and whether any call so
\* far did (logged).
UpdateEnvFileCall ==
    /\ pc[Main] = "persist" /\ CanRun(Main) /\ chk[Main].npersist < 2
    /\ \E fs \in IOOutcomes(env, loc[Main].new_access_token,
                               loc[Main].new_refresh_token) :
         /\ env' = update_env_file(env, loc[Main].new_access_token,
                                   loc[Main].new_refresh_token, fs)
         /\ chk' = [chk EXCEPT ![Main].npersist = @ + 1,
                               ![Main].logged = (@ \/ fs.io # "ok"),
                               ![Main].pfail = (fs.io # "ok"),
                               ![Main].snap = <<env>>]
    /\ UNCHANGED <<pc, running, loc, access_token, refresh_token_value, conn_token,
                   sheet_ok, issued, exit_status, sent, hist>>

EnvNext == UpdateEnvFileCall

EnvSpec == EnvInit /\ [][EnvNext]_vars

\* The content the last call of update_env_file found, and what a reader of
\* the store found in it.
ContentBefore == chk[Main].snap[1]
PairBefore == <<getenv(ContentBefore, KEY_ACCESS), getenv(ContentBefore, KEY_REFRESH)>>
NonCredential(line) == ~startswith(line, KEY_ACCESS) /\ ~startswith(line, KEY_REFRESH)

\* C15: when update_env_file has been called on a store holding a complete
\* pair, whatever happened to the call (done, open failed, write failed or the
\* process died part-way), a reader finds the complete old pair or the
\* complete new pair.
C15_StoreHoldsOldOrNewPair ==
    (/\ chk[Main].npersist >= 1
     /\ Truthy(PairBefore[1]) /\ Truthy(PairBefore[2])) =>
        StoredPair \in {PairBefore, NewPair(Main)}

\* C19: after a call of update_env_file that caught no IOError, the lines
\* that start with neither key are the ones the file had, in the same order;
\* every line that starts with a key is that key with the new token; at least
\* one line starts with each key; and a second call with the same tokens
\* leaves the content as the first one left it.
C19_OnlyCredentialLinesChange ==
    (chk[Main].npersist >= 1 /\ ~chk[Main].pfail) =>
        LET before == readlines(ContentBefore)
            after  == readlines(env)
        IN  /\ SelectSeq(after, NonCredential) = SelectSeq(before, NonCredential)
            /\ \A i \in 1..Len(after) :
                 /\ startswith(after[i], KEY_ACCESS) =>
                      after[i] = AccessLine(loc[Main].new_access_token)
                 /\ startswith(after[i], KEY_REFRESH) =>
                      after[i] = RefreshLine(loc[Main].new_refresh_token)
            /\ \E i \in 1..Len(after) : startswith(after[i], KEY_ACCESS)
            /\ \E i \in 1..Len(after) : startswith(after[i], KEY_REFRESH)
            /\ (chk[Main].npersist = 2 /\ ~chk[Main].logged) => env = ContentBefore
====
